---- MODULE Spec2Model ----
(***************************************************************************)
(* Model of the smQL browser helpers: the baseURL request client with the  *)
(* flat-merge result (`smQL.js - Final version`, src/unnamed/part_000),    *)
(* and the one-shot clients with the wrapped result (src/semantqQL.js,     *)
(* src/smQL.js).                                                           *)
(*                                                                         *)
(* JavaScript values are tagged records [t, v].  A JavaScript string is    *)
(* the sequence of its pieces: body texts are written one character per    *)
(* piece, header values and messages one token per piece, so that string   *)
(* concatenation is \o and equal strings are equal sequences.  A plain     *)
(* object is a function from its keys to values; {...a, ...b} is Merge.    *)
(***************************************************************************)
EXTENDS Integers, Sequences, FiniteSets, Bags, TLC

VARIABLES
    variant,         \* which client is in use: "baseURL", "ctor" or "verbs"
    inst,            \* fields of the one-shot client instance
    dom,             \* innerHTML of the form elements of the document
    ctorHeaders,     \* the defaultHeaders argument the constructor was given
    baseURL,         \* this.baseURL of the baseURL client
    defaultHeaders,  \* this.defaultHeaders
    token,           \* this.token
    optLog,          \* this.options.log
    pc,              \* position of the request in flight
    args,            \* arguments of the current request call
    sent,            \* what the transport was called with: url and options
    response,        \* the Response the transport resolved with
    bodyUsed,        \* Response.bodyUsed of that response
    outcome,         \* how the promise returned by request settled
    logLines,        \* console lines emitted by the current call
    callCount,       \* number of request calls issued so far
    via,             \* the public method the caller invoked, with its arguments
    first,           \* the call that is being repeated with the log flag inverted
    formDoc,         \* the document's form: its id and its controls in DOM order
    formObj,         \* the Form instance: whether it exists, and its fields
    listeners,       \* the event listeners attached to the form element
    formRun,         \* the event being handled: position and what was observed
    notes,           \* the notification elements, by the order they were shown
    timers           \* the pending timeouts: a bag of callbacks with their delay

formVars == <<formDoc, formObj, listeners, formRun>>
noteVars == <<notes, timers>>

clientVars == <<variant, inst, dom, ctorHeaders, baseURL, defaultHeaders, token, optLog, pc, args, sent,
                response, bodyUsed, outcome, logLines, callCount, via, first>>

vars == <<variant, inst, dom, ctorHeaders, baseURL, defaultHeaders, token, optLog, pc, args, sent, response,
          bodyUsed, outcome, logLines, callCount, via, first, formVars, noteVars>>

\* Number of request calls issued in one behaviour.
MaxRequests == 2

-----------------------------------------------------------------------------
(* JavaScript values *)

JNull == [t |-> "null", v |-> 0]
JUndef == [t |-> "undef", v |-> 0]
JBool(b) == [t |-> "bool", v |-> b]
JNum(n) == [t |-> "num", v |-> n]
JStr(s) == [t |-> "str", v |-> s]
JObj(f) == [t |-> "obj", v |-> f]

EmptyObj == [k \in {} |-> JNull]

\* ToBoolean, as applied by `if (x)` and `x && y`.
Truthy(x) ==
    CASE x.t = "null" -> FALSE
      [] x.t = "undef" -> FALSE
      [] x.t = "bool" -> x.v
      [] x.t = "num" -> x.v # 0
      [] x.t = "str" -> x.v # <<>>
      [] OTHER -> TRUE

\* { ...a, ...b } on the functions that represent two objects.
Merge(a, b) ==
    [k \in (DOMAIN a) \cup (DOMAIN b) |-> IF k \in DOMAIN b THEN b[k] ELSE a[k]]

\* The own enumerable properties copied by the spread `...x` in an object
\* literal: the keys of an object, the indexed characters of a string,
\* nothing for null, undefined, booleans and numbers.
SpreadOf(x) ==
    CASE x.t = "obj" -> x.v
      [] x.t = "str" ->
            [k \in {ToString(i - 1) : i \in 1..Len(x.v)} |->
                JStr(<<x.v[CHOOSE i \in 1..Len(x.v) : ToString(i - 1) = k]>>)]
      [] OTHER -> EmptyObj

\* Keys in the order the model serialises them.
KeyOrder == <<"_status", "_ok", "message", "error">>

RECURSIVE JSONStringify(_)
RECURSIVE StringifyMembers(_, _)
\* JSON.stringify on the values of the model, without whitespace.
JSONStringify(x) ==
    CASE x.t = "null" -> <<"null">>
      [] x.t = "bool" -> IF x.v THEN <<"true">> ELSE <<"false">>
      [] x.t = "num" -> <<ToString(x.v)>>
      [] x.t = "str" -> <<"\"">> \o x.v \o <<"\"">>
      [] x.t = "obj" -> <<"{">> \o StringifyMembers(x.v, 1) \o <<"}">>

StringifyMembers(f, i) ==
    IF i > Len(KeyOrder) THEN <<>>
    ELSE LET k == KeyOrder[i]
             rest == StringifyMembers(f, i + 1)
         IN IF k \in DOMAIN f
                THEN <<"\"", k, "\"", ":">> \o JSONStringify(f[k])
                       \o (IF rest = <<>> THEN <<>> ELSE <<",">> \o rest)
                ELSE rest

-----------------------------------------------------------------------------
(* Inputs *)

Hi == <<"h", "i">>
JsonCT == <<"application/json">>
JsonUtf8CT == <<"application/json", "; charset=utf-8">>
TextCT == <<"text/plain">>

\* JSON documents a server may answer with.
JsonUniverse ==
    { JNull, JNum(0), JNum(1), JBool(FALSE), JBool(TRUE), JStr(<<>>), JStr(Hi),
      JObj([message |-> JStr(Hi)]),
      JObj([_status |-> JNum(1), _ok |-> JBool(TRUE)]) }

\* Body arguments a caller may pass to request.
Bodies == {JNull, JNum(0), JObj([message |-> JStr(Hi)])}

Methods == {"GET", "HEAD", "POST"}

Endpoints == {<<"/items">>}

NoHeaders == [k \in {} |-> <<>>]

\* Per-call headers arguments.
HeaderSets ==
    { NoHeaders,
      [k \in {"Content-Type"} |-> TextCT],
      [k \in {"Authorization"} |-> <<"Basic ", "abc">>] }

\* defaultHeaders arguments of the constructor.
DefaultHeaderSets ==
    { NoHeaders,
      [k \in {"Content-Type", "Authorization"} |->
          IF k = "Content-Type" THEN JsonUtf8CT ELSE <<"Basic ", "dflt">>] }

Tokens == {JNull, JStr(<<"t1">>), JStr(<<"t2">>)}

Statuses == {200, 404}

\* Values of the response's content-type header; null when it has none.
ContentTypes == {JNull, JStr(JsonUtf8CT), JStr(TextCT)}

\* Response body texts: JSON documents, and a text that is no JSON document.
RawBodies ==
    { JSONStringify(x) : x \in {JStr(Hi), JObj([message |-> JStr(Hi)]),
                                JObj([_status |-> JNum(1), _ok |-> JBool(TRUE)])} }
      \cup {Hi}

-----------------------------------------------------------------------------
(* The transport: fetch and the Response it resolves with *)

JError(name, message) == [t |-> "error", v |-> [name |-> name, message |-> message]]

NetworkError == JError("TypeError", <<"Failed to fetch">>)
BodyUsedError == JError("TypeError", <<"body stream already read">>)
BodyReadError == JError("TypeError", <<"network error">>)
JsonSyntaxError == JError("SyntaxError", <<"Unexpected token">>)

\* response.ok of the transport: true iff the status is in 200..299.
OkOf(status) == status >= 200 /\ status <= 299

ResponseOf(status, contentType, raw, readFails) ==
    [status |-> status, ok |-> OkOf(status), contentType |-> contentType, raw |-> raw,
     readFails |-> readFails]

\* What fetch may resolve with; readFails: reading the body stream fails.
Responses ==
    { ResponseOf(200, ct, r, FALSE) : ct \in ContentTypes, r \in RawBodies }
      \cup { ResponseOf(404, ct, r, FALSE) :
                ct \in ContentTypes,
                r \in {Hi, JSONStringify(JObj([message |-> JStr(Hi)]))} }
      \cup { ResponseOf(200, ct, Hi, TRUE) : ct \in {JStr(JsonUtf8CT), JStr(TextCT)} }

NoResponse ==
    [status |-> 0, ok |-> FALSE, contentType |-> JNull, raw |-> <<>>, readFails |-> FALSE]

Fulfilled(x) == [ok |-> TRUE, value |-> x]
Rejected(e) == [ok |-> FALSE, value |-> e]

\* JSON.parse on a text: the document whose serialisation the text is, or a
\* SyntaxError when the text is the serialisation of none.
JSONParse(text) ==
    IF \E x \in JsonUniverse : JSONStringify(x) = text
        THEN Fulfilled(CHOOSE x \in JsonUniverse : JSONStringify(x) = text)
        ELSE Rejected(JsonSyntaxError)

\* response.text(): the body can be read once; a second read rejects.
ResponseText(resp, used) ==
    IF used THEN Rejected(BodyUsedError)
    ELSE IF resp.readFails THEN Rejected(BodyReadError)
    ELSE Fulfilled(JStr(resp.raw))

\* response.json(): reads the body as text() does, then parses it.
ResponseJson(resp, used) ==
    IF used THEN Rejected(BodyUsedError)
    ELSE IF resp.readFails THEN Rejected(BodyReadError)
    ELSE JSONParse(resp.raw)

\* String.prototype.includes, at the granularity of pieces.
Includes(s, piece) == \E i \in 1..Len(s) : s[i] = piece

-----------------------------------------------------------------------------
(* The document and the options of the one-shot clients *)

DefaultSuccessMessage == <<"Submission successful.">>
DefaultErrorMessage == <<"An error occurred. Please try again.">>

\* The forms of the document, by id, with their innerHTML.
InitialDom == [id \in {"f1"} |-> <<"<input>">>]

\* options arguments of the one-shot clients.
OptionSets ==
    { EmptyObj,
      [log |-> JBool(FALSE), formId |-> JStr(<<"ghost">>)],
      [formId |-> JStr(<<"f1">>)],
      [headers |-> JObj([k \in {"Authorization"} |-> <<"Bearer ", "token123">>])],
      [method |-> JStr(<<"GET">>)] }

\* method arguments given to the constructor of the constructor-style client.
CtorMethods == {"GET", "POST", "post", "PUT", "DELETE"}

\* The verbs of the endpoint/options client that take a body.
BodyVerbs == {"POST", "PUT", "PATCH"}

\* x ?? dflt on an options key.
OptionOr(options, key, dflt) ==
    IF key \in DOMAIN options /\ options[key].t \notin {"null", "undef"}
        THEN options[key]
        ELSE dflt

NoInst ==
    [endpoint |-> <<>>, method |-> "GET", body |-> JNull, options |-> EmptyObj,
     log |-> JBool(TRUE), formId |-> JNull,
     successMessage |-> JStr(DefaultSuccessMessage),
     errorMessage |-> JStr(DefaultErrorMessage)]

-----------------------------------------------------------------------------
(* The form, the Form instance and the notifications before they are used *)

NoFormDoc == [id |-> <<>>, controls |-> <<>>]

NoFormObj ==
    [exists |-> FALSE, asked |-> <<>>, given |-> <<JUndef, JUndef>>,
     eventType |-> JUndef, debug |-> JBool(FALSE), data |-> JNull,
     onCaptured |-> JUndef, thrown |-> JUndef]

NoRun ==
    [pc |-> "idle", type |-> <<>>, prevented |-> FALSE, depth |-> 0, inner |-> <<>>,
     controls |-> <<>>, before |-> JNull, steps |-> <<>>, promise |-> "none"]

FormParked ==
    /\ formDoc = NoFormDoc
    /\ formObj = NoFormObj
    /\ listeners = {}
    /\ formRun = NoRun

NotesParked ==
    /\ notes = <<>>
    /\ timers = EmptyBag

-----------------------------------------------------------------------------
(* The baseURL client: constructor, setToken, request *)

BuiltinHeaders == [k \in {"Content-Type"} |-> JsonCT]

\* constructor: the instance default headers over the built-in Content-Type.
ConstructDefaultHeaders(given) == Merge(BuiltinHeaders, given)

\* `Bearer ${this.token}`
BearerValue(tok) == <<"Bearer ">> \o tok.v

FinalHeadersTokenFirst(defaults, headers, tok) ==
    IF Truthy(tok)
        THEN Merge(Merge(defaults, [k \in {"Authorization"} |-> BearerValue(tok)]), headers)
        ELSE Merge(defaults, headers)

FinalHeadersDefaultsWin(defaults, headers, tok) ==
    LET merged == Merge(headers, defaults)
    IN IF Truthy(tok)
           THEN Merge(merged, [k \in {"Authorization"} |-> BearerValue(tok)])
           ELSE merged

\* request: the headers sent, from the instance defaults, the per-call
\* headers and the stored token.
FinalHeaders(defaults, headers, tok) ==
    LET merged == Merge(defaults, headers)
    IN IF Truthy(tok)
           THEN Merge(merged, [k \in {"Authorization"} |-> BearerValue(tok)])
           ELSE merged

AttachesBodyExceptGet(method, body) == Truthy(body) /\ method # "GET"

\* request: whether a body is attached to the options.
AttachesBody(method, body) == Truthy(body) /\ method # "GET" /\ method # "HEAD"

\* request: the body attached to the options.
BodyToSend(finalHeaders, body) ==
    IF "Content-Type" \in DOMAIN finalHeaders /\ finalHeaders["Content-Type"] = JsonCT
        THEN JStr(JSONStringify(body))
        ELSE body

\* request: the options passed to fetch.
RequestOptions(method, body, finalHeaders) ==
    LET base == ("method" :> JStr(<<method>>)) @@ ("headers" :> JObj(finalHeaders))
    IN IF AttachesBody(method, body)
           THEN base @@ ("body" :> BodyToSend(finalHeaders, body))
           ELSE base

\* request: whether the response is decoded with json() rather than text().
DecodesAsJson(resp) ==
    Truthy(resp.contentType) /\ Includes(resp.contentType.v, "application/json")

FlatMergeStatusOnly(resp, data) ==
    JObj([_status |-> JNum(resp.status), _ok |-> JBool(resp.ok)])

\* request: the value resolved with, from the response and the decoded body.
FlatMerge(resp, data) ==
    JObj(Merge([_status |-> JNum(resp.status), _ok |-> JBool(resp.ok)], SpreadOf(data)))

LogLine(endpoint, resp, data) ==
    [level |-> "log",
     text |-> <<"[smQL] Request to ">> \o endpoint
                \o <<" returned status ", ToString(resp.status)>>,
     payload |-> data]

ErrorLine(method, endpoint, err) ==
    [level |-> "error",
     text |-> <<"[smQL] API request failed: ", method, " ">> \o endpoint,
     payload |-> err]

NoArgs == [endpoint |-> <<>>, method |-> "GET", body |-> JNull, headers |-> NoHeaders]
NoSent == [url |-> <<>>, options |-> EmptyObj]
Pending == [kind |-> "pending", value |-> JUndef]
NoOutcome == [kind |-> "none", value |-> JUndef]

\* The public method a caller invoked and the arguments it was given.
ViaOf(verb, endpoint, method, body, headers) ==
    [verb |-> verb, endpoint |-> endpoint, method |-> method, body |-> body,
     headers |-> headers]

NoVia == ViaOf("none", <<>>, JUndef, JUndef, NoHeaders)

NoFirst ==
    [mode |-> "free", at |-> 0, log |-> TRUE, via |-> NoVia, args |-> NoArgs,
     response |-> NoResponse, sent |-> NoSent, outcome |-> NoOutcome]

Init ==
    /\ variant = "baseURL"
    /\ inst = NoInst
    /\ dom = InitialDom
    /\ baseURL = <<"http://api">>
    /\ ctorHeaders \in DefaultHeaderSets
    /\ defaultHeaders = ConstructDefaultHeaders(ctorHeaders)
    /\ token = JNull
    /\ optLog \in BOOLEAN
    /\ pc = "idle"
    /\ args = NoArgs
    /\ sent = NoSent
    /\ response = NoResponse
    /\ bodyUsed = FALSE
    /\ outcome = NoOutcome
    /\ logLines = <<>>
    /\ callCount = 0
    /\ via = NoVia
    /\ first = NoFirst
    /\ FormParked
    /\ NotesParked

SetTokenRestamps(tok) ==
    /\ token' = tok
    /\ sent' = IF pc \in {"fetch", "read", "reread"}
                  THEN [sent EXCEPT !.options =
                           Merge(sent.options,
                                 [k \in {"headers"} |->
                                     JObj(FinalHeaders(defaultHeaders, args.headers, tok))])]
                  ELSE sent
    /\ UNCHANGED <<via, first, formVars, noteVars, variant, inst, dom, ctorHeaders, baseURL,
                   defaultHeaders, optLog, pc, args, response, bodyUsed, outcome, logLines,
                   callCount>>

SetToken(tok) ==
    /\ token' = tok
    /\ UNCHANGED <<via, first, formVars, noteVars, variant, inst, dom, ctorHeaders, baseURL, defaultHeaders, optLog, pc, args, sent, response,
                   bodyUsed, outcome, logLines, callCount>>

RequestFromKeepsHeaders(entry, endpoint, method, body, headers) ==
    /\ pc \in {"idle", "settled"}
    /\ callCount < MaxRequests
    /\ defaultHeaders' = Merge(defaultHeaders, headers)
    /\ LET finalHeaders == FinalHeaders(defaultHeaders', NoHeaders, token)
       IN sent' = [url |-> baseURL \o endpoint,
                   options |-> RequestOptions(method, body, finalHeaders)]
    /\ args' = [endpoint |-> endpoint, method |-> method, body |-> body,
                headers |-> headers]
    /\ pc' = "fetch"
    /\ response' = NoResponse
    /\ bodyUsed' = FALSE
    /\ outcome' = Pending
    /\ logLines' = <<>>
    /\ callCount' = callCount + 1
    /\ via' = entry
    /\ UNCHANGED <<first, formVars, noteVars, variant, inst, dom, ctorHeaders, baseURL,
                   token, optLog>>

\* request up to `await fetch(...)`, entered through the public method
\* `entry`.
RequestFrom(entry, endpoint, method, body, headers) ==
    /\ pc \in {"idle", "settled"}
    /\ callCount < MaxRequests
    /\ LET finalHeaders == FinalHeaders(defaultHeaders, headers, token)
       IN sent' = [url |-> baseURL \o endpoint,
                   options |-> RequestOptions(method, body, finalHeaders)]
    /\ args' = [endpoint |-> endpoint, method |-> method, body |-> body,
                headers |-> headers]
    /\ pc' = "fetch"
    /\ response' = NoResponse
    /\ bodyUsed' = FALSE
    /\ outcome' = Pending
    /\ logLines' = <<>>
    /\ callCount' = callCount + 1
    /\ via' = entry
    /\ UNCHANGED <<first, formVars, noteVars, variant, inst, dom, ctorHeaders, baseURL,
                   defaultHeaders, token, optLog>>

\* request(endpoint, method, body, headers) called directly.
Request(endpoint, method, body, headers) ==
    RequestFrom(ViaOf("request", endpoint, JStr(<<method>>), body, headers),
                endpoint, method, body, headers)

FailThrowInsideLogBlock(err) ==
    /\ logLines' = IF optLog
                      THEN Append(logLines, ErrorLine(args.method, args.endpoint, err))
                      ELSE logLines
    /\ outcome' = IF optLog THEN [kind |-> "rejected", value |-> err]
                   ELSE [kind |-> "resolved", value |-> JUndef]
    /\ pc' = "settled"

FailSilent(err) ==
    /\ logLines' = logLines
    /\ outcome' = [kind |-> "rejected", value |-> err]
    /\ pc' = "settled"

\* The outer catch: log when enabled, rethrow.
Fail(err) ==
    /\ logLines' = IF optLog
                      THEN Append(logLines, ErrorLine(args.method, args.endpoint, err))
                      ELSE logLines
    /\ outcome' = [kind |-> "rejected", value |-> err]
    /\ pc' = "settled"

\* fetch rejects: network failure.
FetchRejects ==
    /\ pc = "fetch"
    /\ Fail(NetworkError)
    /\ UNCHANGED <<via, first, formVars, noteVars, variant, inst, dom, ctorHeaders, baseURL, defaultHeaders, token, optLog, args, sent, response,
                   bodyUsed, callCount>>

\* fetch resolves with a response.
FetchResolves(resp) ==
    /\ pc = "fetch"
    /\ response' = resp
    /\ pc' = "read"
    /\ UNCHANGED <<via, first, formVars, noteVars, variant, inst, dom, ctorHeaders, baseURL, defaultHeaders, token, optLog, args, sent, bodyUsed,
                   outcome, logLines, callCount>>

\* `await response.json()` or `await response.text()`, then the flat merge,
\* the log line and the return; a failed read enters the inner catch.
ReadSettles ==
    /\ pc = "read"
    /\ LET read == IF DecodesAsJson(response)
                      THEN ResponseJson(response, bodyUsed)
                      ELSE ResponseText(response, bodyUsed)
           data == FlatMerge(response, read.value)
       IN IF read.ok
              THEN /\ logLines' = IF optLog
                                     THEN Append(logLines, LogLine(args.endpoint, response, data))
                                     ELSE logLines
                   /\ outcome' = [kind |-> "resolved", value |-> data]
                   /\ pc' = "settled"
              ELSE /\ pc' = "reread"
                   /\ UNCHANGED <<outcome, logLines>>
    /\ bodyUsed' = TRUE
    /\ UNCHANGED <<via, first, formVars, noteVars, variant, inst, dom, ctorHeaders, baseURL, defaultHeaders, token, optLog, args, sent, response,
                   callCount>>

\* The inner catch: `await response.text()` for the raw text, then the throw
\* of the parse failure, which the outer catch logs and rethrows.
RereadSettles ==
    /\ pc = "reread"
    /\ LET raw == ResponseText(response, bodyUsed)
       IN IF raw.ok
              THEN Fail(JError("Error", <<"Failed to parse response: ">> \o raw.value.v))
              ELSE Fail(raw.value)
    /\ bodyUsed' = TRUE
    /\ UNCHANGED <<via, first, formVars, noteVars, variant, inst, dom, ctorHeaders, baseURL, defaultHeaders, token, optLog, args, sent, response,
                   callCount>>

Next ==
    \/ \E tok \in Tokens : SetToken(tok)
    \/ \E e \in Endpoints, m \in Methods, b \in Bodies, h \in HeaderSets :
          Request(e, m, b, h)
    \/ FetchRejects
    \/ \E resp \in Responses : FetchResolves(resp)
    \/ ReadSettles
    \/ RereadSettles

Spec == Init /\ [][Next]_vars

-----------------------------------------------------------------------------
(* The one-shot clients: new smQL(endpoint, method, body, options) of        *)
(* semantqQL.js ("ctor") and new smQL(endpoint, options) with its verbs of   *)
(* smQL.js ("verbs")                                                         *)

\* String.prototype.toUpperCase on the method names of the model.
ToUpperCase(m) ==
    CASE m = "get" -> "GET"
      [] m = "post" -> "POST"
      [] m = "put" -> "PUT"
      [] OTHER -> m

\* The fields both constructors derive from the options.
InstanceOf(endpoint, method, body, options) ==
    [endpoint |-> endpoint, method |-> method, body |-> body, options |-> options,
     log |-> OptionOr(options, "log", JBool(TRUE)),
     formId |-> OptionOr(options, "formId", JNull),
     successMessage |-> OptionOr(options, "successMessage", JStr(DefaultSuccessMessage)),
     errorMessage |-> OptionOr(options, "errorMessage", JStr(DefaultErrorMessage))]

\* The keys deleted from the config before it reaches fetch.
NonFetchKeys == {"log", "formId", "successMessage", "errorMessage"}

\* The config object: method and merged headers, the options spread over
\* them, the non-fetch keys deleted.
BaseConfig(method, options) ==
    LET given == IF "headers" \in DOMAIN options THEN SpreadOf(options["headers"])
                 ELSE NoHeaders
        spread == Merge(("method" :> JStr(<<method>>))
                          @@ ("headers" :> JObj(Merge(BuiltinHeaders, given))),
                        options)
    IN [k \in (DOMAIN spread) \ NonFetchKeys |-> spread[k]]

WithBody(config, body) == Merge(config, [k \in {"body"} |-> JStr(JSONStringify(body))])

\* semantqQL.js: the body is attached for POST, PUT and PATCH of this.method.
CtorConfig(method, body, options) ==
    LET config == BaseConfig(method, options)
    IN IF method \in {"POST", "PUT", "PATCH"} THEN WithBody(config, body) ELSE config

\* smQL.js: the body is attached for POST, PUT and PATCH of config.method
\* when the body is truthy.
VerbConfig(method, body, options) ==
    LET config == BaseConfig(ToUpperCase(method), options)
    IN IF config["method"].v \in {<<"POST">>, <<"PUT">>, <<"PATCH">>} /\ Truthy(body)
           THEN WithBody(config, body)
           ELSE config

\* The method the success message is decided on: this.method in
\* semantqQL.js, config.method in smQL.js.
FeedbackMethod == IF variant = "ctor" THEN <<inst.method>> ELSE sent.options["method"].v

\* The method named in the status line: this.method in semantqQL.js,
\* config.method in smQL.js.
LoggedMethod == IF variant = "ctor" THEN <<inst.method>> ELSE sent.options["method"].v

\* document.getElementById(this.formId) finds a form.
FormFound == Truthy(inst.formId) /\ \E id \in DOMAIN dom : <<id>> = inst.formId.v

FormIdOf == CHOOSE id \in DOMAIN dom : <<id>> = inst.formId.v

SuccessHTML == <<"<div class=\"formique-success\">">> \o inst.successMessage.v \o <<"</div>">>
ErrorHTML == <<"<div class=\"formique-error\">">> \o inst.errorMessage.v \o <<"</div>">>

DomAfterResponseAnyMethod(resp) ==
    IF ~FormFound THEN dom
    ELSE IF ~resp.ok THEN [dom EXCEPT ![FormIdOf] = ErrorHTML]
    ELSE [dom EXCEPT ![FormIdOf] = SuccessHTML]

\* The form feedback after a decoded response.
DomAfterResponse(resp) ==
    IF ~FormFound THEN dom
    ELSE IF ~resp.ok THEN [dom EXCEPT ![FormIdOf] = ErrorHTML]
    ELSE IF FeedbackMethod \in {<<"POST">>, <<"PUT">>} THEN [dom EXCEPT ![FormIdOf] = SuccessHTML]
    ELSE dom

WrappedResultWithError(resp, data) ==
    IF resp.ok
        THEN JObj([status |-> JNum(resp.status), ok |-> JBool(resp.ok), data |-> data])
        ELSE JObj([status |-> JNum(resp.status), ok |-> JBool(resp.ok), data |-> data,
                   error |-> JStr(<<"Request failed">>)])

\* The result returned after a decoded response.
WrappedResult(resp, data) ==
    JObj([status |-> JNum(resp.status), ok |-> JBool(resp.ok), data |-> data])

WrappedFailureNoMessage(err) ==
    JObj([status |-> JNum(0), ok |-> JBool(FALSE), data |-> JNull])

\* The result returned by the catch block.
WrappedFailure(err) ==
    JObj([status |-> JNum(0), ok |-> JBool(FALSE), data |-> JNull,
          error |-> JStr(err.v.message)])

StatusLine(resp, data) ==
    [level |-> IF resp.ok THEN "log" ELSE "warn",
     text |-> LoggedMethod \o <<" [", ToString(resp.status), "]:">>,
     payload |-> data]

RequestErrorLine(err) ==
    [level |-> "error",
     text |-> <<IF variant = "ctor" THEN inst.method ELSE args.method, " request error:">>,
     payload |-> JStr(err.v.message)]

InitWrapped ==
    /\ variant \in {"ctor", "verbs"}
    /\ \E o \in OptionSets :
          inst = IF variant = "verbs"
                    THEN InstanceOf(<<"/api/resource">>, "GET", JNull, o)
                    ELSE NoInst
    /\ dom = InitialDom
    /\ ctorHeaders = NoHeaders
    /\ baseURL = <<>>
    /\ defaultHeaders = NoHeaders
    /\ token = JNull
    /\ optLog = TRUE
    /\ pc = "idle"
    /\ args = NoArgs
    /\ sent = NoSent
    /\ response = NoResponse
    /\ bodyUsed = FALSE
    /\ outcome = NoOutcome
    /\ logLines = <<>>
    /\ callCount = 0
    /\ via = NoVia
    /\ first = NoFirst
    /\ FormParked
    /\ NotesParked

StartCall(endpoint, method, body, config) ==
    /\ pc \in {"idle", "settled"}
    /\ callCount < MaxRequests
    /\ args' = [endpoint |-> endpoint, method |-> method, body |-> body,
                headers |-> NoHeaders]
    /\ sent' = [url |-> endpoint, options |-> config]
    /\ pc' = "fetch"
    /\ response' = NoResponse
    /\ bodyUsed' = FALSE
    /\ outcome' = Pending
    /\ logLines' = <<>>
    /\ callCount' = callCount + 1
    /\ UNCHANGED <<via, first, formVars, noteVars, variant, dom, ctorHeaders, baseURL, defaultHeaders, token, optLog>>

\* semantqQL.js: new smQL(endpoint, method, body, options), which returns
\* this.request(); request up to `await fetch(...)`.
Construct(endpoint, method, body, options) ==
    /\ variant = "ctor"
    /\ inst' = InstanceOf(endpoint, ToUpperCase(method), body, options)
    /\ StartCall(endpoint, method, body, CtorConfig(ToUpperCase(method), body, options))

\* smQL.js: get(), post(body), put(body), patch(body), delete(); #request
\* up to `await fetch(...)`.
Verb(method, body) ==
    /\ variant = "verbs"
    /\ method \in BodyVerbs \/ body = JNull
    /\ StartCall(inst.endpoint, method, body, VerbConfig(method, body, inst.options))
    /\ UNCHANGED inst

\* The catch block: log, form feedback, the failure result.
Catch(err) ==
    /\ logLines' = IF Truthy(inst.log) THEN Append(logLines, RequestErrorLine(err))
                   ELSE logLines
    /\ dom' = IF FormFound THEN [dom EXCEPT ![FormIdOf] = ErrorHTML] ELSE dom
    /\ outcome' = [kind |-> "resolved", value |-> WrappedFailure(err)]
    /\ pc' = "settled"

WFetchRejects ==
    /\ variant \in {"ctor", "verbs"}
    /\ pc = "fetch"
    /\ Catch(NetworkError)
    /\ UNCHANGED <<via, first, formVars, noteVars, variant, inst, ctorHeaders, baseURL, defaultHeaders, token, optLog,
                   args, sent, response, bodyUsed, callCount>>

WFetchResolves(resp) ==
    /\ variant \in {"ctor", "verbs"}
    /\ pc = "fetch"
    /\ response' = resp
    /\ pc' = "read"
    /\ UNCHANGED <<via, first, formVars, noteVars, variant, inst, dom, ctorHeaders, baseURL, defaultHeaders, token,
                   optLog, args, sent, bodyUsed, outcome, logLines, callCount>>

\* `await response.json()` or `await response.text()`, then the log line,
\* the form feedback and the return; a failed read enters the catch block.
WReadSettles ==
    /\ variant \in {"ctor", "verbs"}
    /\ pc = "read"
    /\ LET read == IF DecodesAsJson(response)
                      THEN ResponseJson(response, bodyUsed)
                      ELSE ResponseText(response, bodyUsed)
       IN IF read.ok
              THEN /\ logLines' = IF Truthy(inst.log)
                                     THEN Append(logLines, StatusLine(response, read.value))
                                     ELSE logLines
                   /\ dom' = DomAfterResponse(response)
                   /\ outcome' = [kind |-> "resolved",
                                  value |-> WrappedResult(response, read.value)]
                   /\ pc' = "settled"
              ELSE Catch(read.value)
    /\ bodyUsed' = TRUE
    /\ UNCHANGED <<via, first, formVars, noteVars, variant, inst, ctorHeaders, baseURL, defaultHeaders, token, optLog,
                   args, sent, response, callCount>>

NextWrapped ==
    \/ \E m \in CtorMethods, b \in Bodies, o \in OptionSets :
          Construct(<<"/api/resource">>, m, b, o)
    \/ \E m \in BodyVerbs \cup {"GET", "DELETE"}, b \in Bodies : Verb(m, b)
    \/ WFetchRejects
    \/ \E resp \in Responses : WFetchResolves(resp)
    \/ WReadSettles

SpecWrapped == InitWrapped /\ [][NextWrapped]_vars

-----------------------------------------------------------------------------
(* The same call on two clients that differ in the log flag only: a call is *)
(* made, then repeated on a client constructed with the same configuration  *)
(* and the log flag inverted, with the same arguments against the same      *)
(* transport behaviour.                                                     *)

\* The options of a one-shot client with the log flag inverted.
FlipLog(options) ==
    IF Truthy(OptionOr(options, "log", JBool(TRUE)))
        THEN Merge(options, [k \in {"log"} |-> JBool(FALSE)])
        ELSE [k \in (DOMAIN options) \ {"log"} |-> options[k]]

InitLogPair == Init \/ InitWrapped

\* setToken before the first call; the twin gets the same token.
PairSetToken(tok) ==
    /\ variant = "baseURL"
    /\ pc = "idle"
    /\ SetToken(tok)

FreeRequest(endpoint, method, body, headers) ==
    /\ variant = "baseURL"
    /\ first.mode = "free"
    /\ Request(endpoint, method, body, headers)

FreeConstruct(endpoint, method, body, options) ==
    /\ first.mode = "free"
    /\ Construct(endpoint, method, body, options)

FreeVerb(method, body) ==
    /\ first.mode = "free"
    /\ Verb(method, body)

\* The settled call becomes the call to repeat; the client is replaced by
\* one with the log flag inverted: new smQL(baseURL, defaultHeaders,
\* {log: !log}) with the same token, new smQL(endpoint, {...options, log}).
TwinClient ==
    /\ pc = "settled"
    /\ callCount < MaxRequests
    /\ first.mode = "free" \/ callCount > first.at
    /\ first' = [mode |-> "replay", at |-> callCount,
                 log |-> IF variant = "baseURL" THEN optLog ELSE Truthy(inst.log),
                 via |-> via, args |-> args, response |-> response, sent |-> sent,
                 outcome |-> outcome]
    /\ optLog' = IF variant = "baseURL" THEN ~optLog ELSE optLog
    /\ inst' = IF variant = "verbs"
                  THEN InstanceOf(inst.endpoint, "GET", JNull, FlipLog(inst.options))
                  ELSE inst
    /\ UNCHANGED <<via, formVars, noteVars, variant, dom, ctorHeaders, baseURL,
                   defaultHeaders, token, pc, args, sent, response, bodyUsed, outcome,
                   logLines, callCount>>

Replaying == first.mode = "replay" /\ callCount = first.at

ReplayRequest ==
    /\ Replaying
    /\ \/ /\ variant = "baseURL"
          /\ Request(first.args.endpoint, first.args.method, first.args.body,
                     first.args.headers)
       \/ Construct(first.args.endpoint, first.args.method, first.args.body,
                    FlipLog(inst.options))
       \/ Verb(first.args.method, first.args.body)

Replayed == first.mode = "replay" /\ callCount > first.at

\* The transport behaves as it did for the first call.
PairFetchRejects ==
    /\ first.mode = "free" \/ (Replayed /\ first.response = NoResponse)
    /\ \/ variant = "baseURL" /\ FetchRejects
       \/ WFetchRejects

PairFetchResolves(resp) ==
    /\ first.mode = "free" \/ (Replayed /\ first.response = resp)
    /\ \/ variant = "baseURL" /\ FetchResolves(resp)
       \/ WFetchResolves(resp)

PairReadSettles ==
    \/ variant = "baseURL" /\ ReadSettles
    \/ WReadSettles

PairRereadSettles ==
    /\ variant = "baseURL"
    /\ RereadSettles

NextLogPair ==
    \/ \E tok \in Tokens : PairSetToken(tok)
    \/ \E e \in Endpoints, m \in Methods, b \in Bodies, h \in HeaderSets :
          FreeRequest(e, m, b, h)
    \/ \E m \in CtorMethods, b \in Bodies, o \in OptionSets :
          FreeConstruct(<<"/api/resource">>, m, b, o)
    \/ \E m \in BodyVerbs \cup {"GET", "DELETE"}, b \in Bodies : FreeVerb(m, b)
    \/ TwinClient
    \/ ReplayRequest
    \/ PairFetchRejects
    \/ \E resp \in Responses : PairFetchResolves(resp)
    \/ PairReadSettles
    \/ PairRereadSettles

SpecLogPair == InitLogPair /\ [][NextLogPair]_vars

-----------------------------------------------------------------------------
(* The convenience verbs and the static helper of the baseURL client. A     *)
(* call made through one of them is repeated as the direct request call it  *)
(* stands for, against the same transport behaviour.                        *)

Verbs == {"get", "post", "put", "patch", "delete"}

FetchBaseURLs == {<<"http://other">>}
FetchMethods == {JUndef, JStr(<<"POST">>)}
FetchOptions == {EmptyObj, [k \in {"log"} |-> JBool(FALSE)]}

\* A parameter default: `name = value` applies to undefined only.
DefaultTo(v, dflt) == IF v = JUndef THEN dflt ELSE v

GetAsPost(endpoint, headers) ==
    /\ first.mode = "free"
    /\ RequestFrom(ViaOf("get", endpoint, JUndef, JUndef, headers),
                   endpoint, "POST", JNull, headers)

Get(endpoint, headers) ==
    /\ first.mode = "free"
    /\ RequestFrom(ViaOf("get", endpoint, JUndef, JUndef, headers),
                   endpoint, "GET", JNull, headers)

Post(endpoint, body, headers) ==
    /\ first.mode = "free"
    /\ RequestFrom(ViaOf("post", endpoint, JUndef, body, headers),
                   endpoint, "POST", body, headers)

Put(endpoint, body, headers) ==
    /\ first.mode = "free"
    /\ RequestFrom(ViaOf("put", endpoint, JUndef, body, headers),
                   endpoint, "PUT", body, headers)

Patch(endpoint, body, headers) ==
    /\ first.mode = "free"
    /\ RequestFrom(ViaOf("patch", endpoint, JUndef, body, headers),
                   endpoint, "PATCH", body, headers)

Delete(endpoint, headers) ==
    /\ first.mode = "free"
    /\ RequestFrom(ViaOf("delete", endpoint, JUndef, JUndef, headers),
                   endpoint, "DELETE", JNull, headers)

\* static fetch: a throwaway client, new smQL(baseURL, {}, options), and
\* its request. The client variables hold the throwaway client from here on.
StaticFetch(url, endpoint, method, body, headers, options) ==
    /\ first.mode = "free"
    /\ pc \in {"idle", "settled"}
    /\ callCount < MaxRequests
    /\ baseURL' = url
    /\ ctorHeaders' = NoHeaders
    /\ defaultHeaders' = ConstructDefaultHeaders(NoHeaders)
    /\ token' = JNull
    /\ optLog' = Truthy(OptionOr(options, "log", JBool(TRUE)))
    /\ LET m == DefaultTo(method, JStr(<<"GET">>)).v[1]
           b == DefaultTo(body, JNull)
           finalHeaders == FinalHeaders(defaultHeaders', headers, token')
       IN /\ sent' = [url |-> url \o endpoint,
                      options |-> RequestOptions(m, b, finalHeaders)]
          /\ args' = [endpoint |-> endpoint, method |-> m, body |-> b,
                      headers |-> headers]
    /\ pc' = "fetch"
    /\ response' = NoResponse
    /\ bodyUsed' = FALSE
    /\ outcome' = Pending
    /\ logLines' = <<>>
    /\ callCount' = callCount + 1
    /\ via' = ViaOf("fetch", endpoint, method, body, headers)
    /\ UNCHANGED <<first, formVars, noteVars, variant, inst, dom>>

\* The request call a convenience call stands for.
MethodOfVerb(v) ==
    CASE v.verb = "get" -> "GET"
      [] v.verb = "post" -> "POST"
      [] v.verb = "put" -> "PUT"
      [] v.verb = "patch" -> "PATCH"
      [] v.verb = "delete" -> "DELETE"
      [] v.verb = "fetch" -> IF v.method = JUndef THEN "GET" ELSE v.method.v[1]

BodyOfVerb(v) ==
    IF v.verb \in {"get", "delete"} THEN JNull
    ELSE IF v.body = JUndef THEN JNull ELSE v.body

\* setToken before the first call.
VerbsSetToken(tok) ==
    /\ pc = "idle"
    /\ SetToken(tok)

\* The settled convenience call becomes the call to repeat. For a verb the
\* instance stays; for the static helper the client is constructed anew with
\* that baseURL, no extra default headers and no token.
Recall ==
    /\ pc = "settled"
    /\ callCount < MaxRequests
    /\ first.mode = "free"
    /\ via.verb \in Verbs \cup {"fetch"}
    /\ first' = [mode |-> "replay", at |-> callCount, log |-> optLog, via |-> via,
                 args |-> args, response |-> response, sent |-> sent,
                 outcome |-> outcome]
    /\ IF via.verb = "fetch"
          THEN /\ ctorHeaders' = NoHeaders
               /\ defaultHeaders' = ConstructDefaultHeaders(NoHeaders)
               /\ token' = JNull
          ELSE UNCHANGED <<ctorHeaders, defaultHeaders, token>>
    /\ UNCHANGED <<via, formVars, noteVars, variant, inst, dom, baseURL, optLog, pc,
                   args, sent, response, bodyUsed, outcome, logLines, callCount>>

\* request(e, m, b, h) with the arguments the convenience call stands for.
DirectRequest ==
    /\ Replaying
    /\ Request(first.via.endpoint, MethodOfVerb(first.via), BodyOfVerb(first.via),
               first.via.headers)

VerbsFetchRejects ==
    /\ first.mode = "free" \/ (Replayed /\ first.response = NoResponse)
    /\ FetchRejects

VerbsFetchResolves(resp) ==
    /\ first.mode = "free" \/ (Replayed /\ first.response = resp)
    /\ FetchResolves(resp)

NextVerbs ==
    \/ \E tok \in Tokens : VerbsSetToken(tok)
    \/ \E e \in Endpoints, h \in HeaderSets : Get(e, h)
    \/ \E e \in Endpoints, b \in Bodies, h \in HeaderSets : Post(e, b, h)
    \/ \E e \in Endpoints, b \in Bodies, h \in HeaderSets : Put(e, b, h)
    \/ \E e \in Endpoints, b \in Bodies, h \in HeaderSets : Patch(e, b, h)
    \/ \E e \in Endpoints, h \in HeaderSets : Delete(e, h)
    \/ \E u \in FetchBaseURLs, e \in Endpoints, m \in FetchMethods,
          b \in Bodies \cup {JUndef}, h \in HeaderSets, o \in FetchOptions :
          StaticFetch(u, e, m, b, h, o)
    \/ Recall
    \/ DirectRequest
    \/ VerbsFetchRejects
    \/ \E resp \in Responses : VerbsFetchResolves(resp)
    \/ ReadSettles
    \/ RereadSettles

SpecVerbs == Init /\ [][NextVerbs]_vars

-----------------------------------------------------------------------------
(* Form: the capture of a form's fields on a DOM event *)

JArr(s) == [t |-> "arr", v |-> s]
JFn(name) == [t |-> "fn", v |-> name]

\* What a plain object literal inherits from Object.prototype.
InheritedNames == {"constructor", "toString"}

\* data[name]
GetProperty(data, name) ==
    IF name \in DOMAIN data THEN data[name]
    ELSE IF name \in InheritedNames THEN JFn(name)
    ELSE JUndef

\* data[name] = value
SetProperty(data, name, value) ==
    [k \in (DOMAIN data) \cup {name} |-> IF k = name THEN value ELSE data[k]]

\* The controls of a form: an input carries one value, a <select multiple>
\* the values of its selected options in DOM order.
Input(name, value) == [kind |-> "input", name |-> name, values |-> <<value>>]
MultiSelect(name, selected) == [kind |-> "multi", name |-> name, values |-> selected]

ControlSets ==
    { <<Input("tag", "a"), Input("tag", "b"), MultiSelect("colors", <<"red", "blue">>)>>,
      <<Input("tag", "a"), MultiSelect("colors", <<"red">>)>>,
      <<Input("tag", "a"), MultiSelect("colors", <<>>)>>,
      <<Input("colors", "x"), MultiSelect("colors", <<"red", "blue">>),
        MultiSelect("colors", <<"green">>)>>,
      <<MultiSelect("", <<"red">>), Input("q", "z")>>,
      <<Input("constructor", "c")>>,
      <<Input("tag", "a"), Input("tag", "b"), Input("tag", "c")>> }

\* new FormData(form).entries(): the name/value pairs of the named controls
\* in tree order, one pair per selected option of a select.
RECURSIVE FormDataEntries(_)
FormDataEntries(controls) ==
    IF controls = <<>> THEN <<>>
    ELSE LET c == Head(controls)
             own == IF c.name = "" THEN <<>>
                    ELSE [i \in 1..Len(c.values) |-> <<c.name, c.values[i]>>]
         IN own \o FormDataEntries(Tail(controls))

\* The loop over formData.entries().
RECURSIVE WalkEntries(_, _)
WalkEntries(entries, data) ==
    IF entries = <<>> THEN data
    ELSE LET name == Head(entries)[1]
             value == JStr(<<Head(entries)[2]>>)
             old == GetProperty(data, name)
             new == IF old.t # "undef"
                       THEN IF old.t = "arr" THEN JArr(Append(old.v, value))
                            ELSE JArr(<<old, value>>)
                       ELSE value
         IN WalkEntries(Tail(entries), SetProperty(data, name, new))

\* The forEach over form.querySelectorAll('select[multiple]').
RECURSIVE MultiSelectPass(_, _)
MultiSelectPass(controls, data) ==
    IF controls = <<>> THEN data
    ELSE LET c == Head(controls)
             selectedOptions == [i \in 1..Len(c.values) |-> JStr(<<c.values[i]>>)]
             next == IF c.kind = "multi" /\ c.name # "" /\ Len(selectedOptions) > 0
                        THEN SetProperty(data, c.name,
                                         IF Len(selectedOptions) = 1
                                            THEN selectedOptions[1]
                                            ELSE JArr(selectedOptions))
                        ELSE data
         IN MultiSelectPass(Tail(controls), next)

\* #captureFormData(form)
CaptureFormData(controls) ==
    JObj(MultiSelectPass(controls, WalkEntries(FormDataEntries(controls), EmptyObj)))

FormIds == {<<"f1">>, <<"ghost">>}

\* { debug: true, onCaptured: async (data) => {...} }
ReadmeOptions == [k \in {"debug", "onCaptured"} |->
                     IF k = "debug" THEN JBool(TRUE) ELSE JFn("async")]

FormOptionSets ==
    { EmptyObj,
      ReadmeOptions,
      [k \in {"onCaptured"} |-> JFn("sync")],
      [k \in {"onCaptured"} |-> JFn("throws")] }

EventTypeArgs ==
    {JUndef, JStr(<<"submit">>), JStr(<<"change">>), JStr(<<"form:captured">>),
     JObj(ReadmeOptions)}

FiredTypes == {<<"submit">>, <<"change">>, <<"form:captured">>}

\* Listener activations the call stack holds before a further call overflows.
StackLimit == 3

\* The type addEventListener registers: its argument converted to a string.
TypeString(x) ==
    CASE x.t = "str" -> x.v
      [] x.t = "obj" -> <<"[object Object]">>
      [] OTHER -> <<x.t>>

NotFoundError(formId) ==
    JError("Error", <<"Form with ID \"">> \o formId \o <<"\" not found">>)

CallbackError == JError("Error", <<"callback failed">>)
StackOverflow == JError("RangeError", <<"Maximum call stack size exceeded">>)

CaptureListener(type) == [type |-> type, kind |-> "capture"]
AppListener == [type |-> <<"form:captured">>, kind |-> "app"]

ElementMissingNever(formId) == FALSE

\* !document.getElementById(formId)
ElementMissing(formId) == formDoc.id # formId

\* new Form(formId, eventType, options), the arguments as given.
NewForm(formId, a2, a3) ==
    /\ ~formObj.exists
    /\ LET eventType == DefaultTo(a2, JStr(<<"submit">>))
           options == DefaultTo(a3, JObj(EmptyObj))
       IN IF ElementMissing(formId)
             THEN /\ formObj' = [NoFormObj EXCEPT !.asked = formId,
                                                  !.thrown = NotFoundError(formId)]
                  /\ UNCHANGED listeners
             ELSE /\ formObj' = [exists |-> TRUE,
                                 asked |-> formId,
                                 given |-> <<a2, a3>>,
                                 eventType |-> eventType,
                                 debug |-> OptionOr(SpreadOf(options), "debug", JBool(FALSE)),
                                 data |-> JNull,
                                 onCaptured |-> GetProperty(SpreadOf(options), "onCaptured"),
                                 thrown |-> JUndef]
                  /\ listeners' = listeners \cup {CaptureListener(TypeString(eventType))}
    /\ UNCHANGED <<formDoc, formRun, clientVars, noteVars>>

\* form.addEventListener('form:captured', (e) => ...) by the page.
AddAppListener ==
    /\ AppListener \notin listeners
    /\ listeners' = listeners \cup {AppListener}
    /\ UNCHANGED <<formDoc, formObj, formRun, clientVars, noteVars>>

\* The user changes the fields.
Edit(controls) ==
    /\ controls # formDoc.controls
    /\ formDoc' = [formDoc EXCEPT !.controls = controls]
    /\ UNCHANGED <<formObj, listeners, formRun, clientVars, noteVars>>

Step(op, arg) == [op |-> op, arg |-> arg]

StoreSnapshotMerged(old, snapshot) ==
    IF old.t = "obj" THEN JObj(Merge(old.v, snapshot.v)) ELSE snapshot

\* this.data = <the snapshot>
StoreSnapshot(old, snapshot) == snapshot

HandlerStepsDispatchFirst(form, snapshot) ==
    LET isFn == form.onCaptured.t = "fn"
        throws == isFn /\ form.onCaptured.v = "throws"
    IN <<Step("preventDefault", JUndef), Step("capture", snapshot)>>
       \o (IF Truthy(form.debug) THEN <<Step("debug", form.data)>> ELSE <<>>)
       \o <<Step("dispatch", form.data)>>
       \o (IF AppListener \in listeners THEN <<Step("received", form.data)>> ELSE <<>>)
       \o (IF isFn THEN <<Step("callback", form.data)>> ELSE <<>>)
       \o (IF throws THEN <<Step("throw", CallbackError)>> ELSE <<>>)

\* What the listener does after the snapshot is stored in form.data.
HandlerSteps(form, snapshot) ==
    LET isFn == form.onCaptured.t = "fn"
        throws == isFn /\ form.onCaptured.v = "throws"
    IN <<Step("preventDefault", JUndef), Step("capture", snapshot)>>
       \o (IF Truthy(form.debug) THEN <<Step("debug", form.data)>> ELSE <<>>)
       \o (IF isFn THEN <<Step("callback", form.data)>> ELSE <<>>)
       \o (IF throws
              THEN <<Step("throw", CallbackError)>>
              ELSE <<Step("dispatch", form.data)>>
                   \o (IF AppListener \in listeners
                          THEN <<Step("received", form.data)>>
                          ELSE <<>>))

\* The listener's steps when its dispatchEvent call finds no room on the
\* call stack.
Overflowed(steps) ==
    LET at == CHOOSE i \in 1..Len(steps) : steps[i].op = "dispatch"
    IN SubSeq(steps, 1, at - 1) \o <<Step("throw", StackOverflow)>>

\* The activations of the capture listener that one fired event leads to,
\* outermost first. dispatchEvent calls the listeners of form:captured
\* synchronously, so a capture listener registered for form:captured is
\* called again from inside its own dispatchEvent call, each activation on
\* top of the one before, until the call stack is full; dispatchEvent
\* reports what a listener throws and returns.
RECURSIVE ListenerRuns(_, _, _)
ListenerRuns(form, snapshot, depth) ==
    LET own == HandlerSteps(form, snapshot)
        reenters == /\ CaptureListener(<<"form:captured">>) \in listeners
                    /\ \E i \in 1..Len(own) : own[i].op = "dispatch"
    IN IF ~reenters THEN <<own>>
       ELSE IF depth >= StackLimit THEN <<Overflowed(own)>>
       ELSE <<own>> \o ListenerRuns(form, snapshot, depth + 1)

\* An event of the given type is fired on the form element; the capture
\* listener, when registered for that type, runs to completion. No listener
\* runs for any other type.
Fire(type) ==
    /\ IF formObj.exists /\ CaptureListener(type) \in listeners
          THEN LET snapshot == CaptureFormData(formDoc.controls)
                   form == [formObj EXCEPT !.data = StoreSnapshot(formObj.data, snapshot)]
                   runs == ListenerRuns(form, snapshot, 1)
                   steps == Head(runs)
               IN /\ formObj' = form
                  /\ formRun' = [pc |-> IF steps[Len(steps)].op = "throw"
                                           THEN "threw" ELSE "done",
                                 type |-> type,
                                 prevented |-> TRUE,
                                 depth |-> Len(runs),
                                 inner |-> Tail(runs),
                                 controls |-> formDoc.controls,
                                 before |-> formObj.data,
                                 steps |-> steps,
                                 promise |-> IF form.onCaptured = JFn("async")
                                                THEN "pending" ELSE "none"]
          ELSE UNCHANGED <<formObj, formRun>>
    /\ UNCHANGED <<formDoc, listeners, clientVars, noteVars>>

CallbackSettlesUndoes(how) ==
    /\ formRun.promise = "pending"
    /\ formRun' = [formRun EXCEPT !.promise = how]
    /\ formObj' = IF how = "rejected" THEN [formObj EXCEPT !.data = formRun.before]
                   ELSE formObj
    /\ UNCHANGED <<formDoc, listeners, clientVars, noteVars>>

\* The promise an async callback returned settles, after the listener.
CallbackSettles(how) ==
    /\ formRun.promise = "pending"
    /\ formRun' = [formRun EXCEPT !.promise = how]
    /\ UNCHANGED <<formDoc, formObj, listeners, clientVars, noteVars>>

\* getData()
GetData == formObj.data

InitForm ==
    /\ variant = "form"
    /\ inst = NoInst
    /\ dom = InitialDom
    /\ ctorHeaders = NoHeaders
    /\ baseURL = <<>>
    /\ defaultHeaders = NoHeaders
    /\ token = JNull
    /\ optLog = TRUE
    /\ pc = "idle"
    /\ args = NoArgs
    /\ sent = NoSent
    /\ response = NoResponse
    /\ bodyUsed = FALSE
    /\ outcome = NoOutcome
    /\ logLines = <<>>
    /\ callCount = 0
    /\ via = NoVia
    /\ first = NoFirst
    /\ \E c \in ControlSets : formDoc = [id |-> <<"f1">>, controls |-> c]
    /\ formObj = NoFormObj
    /\ listeners = {}
    /\ formRun = NoRun
    /\ NotesParked

NextForm ==
    \/ \E id \in FormIds, a2 \in EventTypeArgs,
          a3 \in {JUndef} \cup {JObj(o) : o \in FormOptionSets} : NewForm(id, a2, a3)
    \/ AddAppListener
    \/ \E c \in ControlSets : Edit(c)
    \/ \E type \in FiredTypes : Fire(type)
    \/ \E how \in {"resolved", "rejected"} : CallbackSettles(how)

SpecForm == InitForm /\ [][NextForm]_vars

-----------------------------------------------------------------------------
(* Notification: show, the timeouts it sets and the close button. A pending *)
(* timeout may fire at any later moment; its delay is kept with it.         *)

\* Notifications shown in one behaviour, and clicks on one close button.
MaxNotes == 1
MaxClicks == 2

ShowDelay == 10
RemoveDelay == 300
DefaultDuration == 5000

NoteDefaults ==
    [k \in {"duration", "closeable"} |->
        IF k = "duration" THEN JNum(DefaultDuration) ELSE JBool(TRUE)]

NoteOptionSets ==
    { EmptyObj,
      [k \in {"duration"} |-> JNum(3000)],
      [k \in {"duration", "closeable"} |-> IF k = "duration" THEN JNum(3000) ELSE JBool(FALSE)],
      [k \in {"duration", "closeable"} |-> IF k = "duration" THEN JNum(0) ELSE JBool(TRUE)],
      [k \in {"duration", "closeable"} |-> IF k = "duration" THEN JNum(0) ELSE JBool(FALSE)] }

\* setTimeout(callback, delay), the callback named by its kind.
Timer(note, kind, delay) == [note |-> note, kind |-> kind, delay |-> delay]

PendingTimers(note, kind) == {t \in BagToSet(timers) : t.note = note /\ t.kind = kind}

HasAutoCloseAlways(settings) == TRUE

\* settings.duration > 0
HasAutoClose(settings) == settings["duration"].v > 0

\* Notification.show(options)
Show(options) ==
    /\ Len(notes) < MaxNotes
    /\ LET settings == Merge(NoteDefaults, options)
           n == Len(notes) + 1
       IN /\ notes' = Append(notes, [duration |-> settings["duration"].v,
                                     closeable |-> Truthy(settings["closeable"]),
                                     show |-> FALSE,
                                     attached |-> TRUE,
                                     clicks |-> 0,
                                     removeCalls |-> 0])
          /\ timers' = timers (+) SetToBag(
                 {Timer(n, "show", ShowDelay)}
                 \cup (IF HasAutoClose(settings)
                          THEN {Timer(n, "expire", settings["duration"].v)}
                          ELSE {}))
    /\ UNCHANGED <<clientVars, formVars>>

\* () => notification.classList.add('show')
ShowTimerFires(n) ==
    /\ \E t \in PendingTimers(n, "show") :
          timers' = timers (-) SetToBag({t})
    /\ notes' = [notes EXCEPT ![n].show = TRUE]
    /\ UNCHANGED <<clientVars, formVars>>

\* The auto-remove callback: drop the show class, remove 300 ms later.
ExpireTimerFires(n) ==
    /\ \E t \in PendingTimers(n, "expire") :
          timers' = (timers (-) SetToBag({t})) (+) SetToBag({Timer(n, "remove", RemoveDelay)})
    /\ notes' = [notes EXCEPT ![n].show = FALSE]
    /\ UNCHANGED <<clientVars, formVars>>

\* notification.remove(): detaches the element; nothing on a detached one.
ElementRemove(note) == [note EXCEPT !.attached = FALSE, !.removeCalls = @ + 1]

\* () => notification.remove()
RemoveTimerFires(n) ==
    /\ \E t \in PendingTimers(n, "remove") :
          timers' = timers (-) SetToBag({t})
    /\ notes' = [notes EXCEPT ![n] = ElementRemove(@)]
    /\ UNCHANGED <<clientVars, formVars>>

\* A click on the close button of a notification still in the document.
ClickClose(n) ==
    /\ n \in 1..Len(notes)
    /\ notes[n].attached
    /\ notes[n].closeable
    /\ notes[n].clicks < MaxClicks
    /\ notes' = [notes EXCEPT ![n].show = FALSE, ![n].clicks = @ + 1]
    /\ timers' = timers (+) SetToBag({Timer(n, "remove", RemoveDelay)})
    /\ UNCHANGED <<clientVars, formVars>>

InitNotes ==
    /\ variant = "notes"
    /\ inst = NoInst
    /\ dom = InitialDom
    /\ ctorHeaders = NoHeaders
    /\ baseURL = <<>>
    /\ defaultHeaders = NoHeaders
    /\ token = JNull
    /\ optLog = TRUE
    /\ pc = "idle"
    /\ args = NoArgs
    /\ sent = NoSent
    /\ response = NoResponse
    /\ bodyUsed = FALSE
    /\ outcome = NoOutcome
    /\ logLines = <<>>
    /\ callCount = 0
    /\ via = NoVia
    /\ first = NoFirst
    /\ FormParked
    /\ NotesParked

NextNotes ==
    \/ \E o \in NoteOptionSets : Show(o)
    \/ \E n \in 1..MaxNotes : ShowTimerFires(n)
    \/ \E n \in 1..MaxNotes : ExpireTimerFires(n)
    \/ \E n \in 1..MaxNotes : RemoveTimerFires(n)
    \/ \E n \in 1..MaxNotes : ClickClose(n)

\* A timeout that is due runs: the event loop is fair to timer callbacks.
\* Nothing obliges the user to click.
SpecNotes ==
    /\ InitNotes
    /\ [][NextNotes]_vars
    /\ WF_vars(\E n \in 1..MaxNotes : ShowTimerFires(n))
    /\ WF_vars(\E n \in 1..MaxNotes : ExpireTimerFires(n))
    /\ WF_vars(\E n \in 1..MaxNotes : RemoveTimerFires(n))

-----------------------------------------------------------------------------
(* Two requests of one client in flight together. request runs up to each   *)
(* await and yields; the positions of a second call are kept in `first`,    *)
(* and the event loop turns from one call to the other at any await.        *)

\* The call that is not running: its position, arguments, transport call,
\* response and outcome.
SlotOf(p, v, a, s, r, u, o, l) ==
    [mode |-> "slot", pc |-> p, via |-> v, args |-> a, sent |-> s, response |-> r,
     bodyUsed |-> u, outcome |-> o, logLines |-> l]

EmptySlot == SlotOf("idle", NoVia, NoArgs, NoSent, NoResponse, FALSE, NoOutcome, <<>>)

InterleavedBodies == {JObj([message |-> JStr(Hi)])}
InterleavedMethods == {"POST"}

\* A decoded 200, a decoded 401, a 200 whose body is no JSON document and a
\* body stream that fails.
InterleavedResponses ==
    { ResponseOf(200, JStr(JsonUtf8CT), JSONStringify(JObj([message |-> JStr(Hi)])), FALSE),
      ResponseOf(401, JStr(JsonUtf8CT), JSONStringify(JObj([message |-> JStr(Hi)])), FALSE),
      ResponseOf(200, JStr(JsonUtf8CT), Hi, FALSE),
      ResponseOf(200, JStr(TextCT), Hi, TRUE) }

InitInterleaved ==
    /\ variant = "baseURL"
    /\ inst = NoInst
    /\ dom = InitialDom
    /\ baseURL = <<"http://api">>
    /\ ctorHeaders \in DefaultHeaderSets
    /\ defaultHeaders = ConstructDefaultHeaders(ctorHeaders)
    /\ token = JNull
    /\ optLog \in BOOLEAN
    /\ pc = "idle"
    /\ args = NoArgs
    /\ sent = NoSent
    /\ response = NoResponse
    /\ bodyUsed = FALSE
    /\ outcome = NoOutcome
    /\ logLines = <<>>
    /\ callCount = 0
    /\ via = NoVia
    /\ first = EmptySlot
    /\ FormParked
    /\ NotesParked

\* The running call has reached an await (or has not started, or is done):
\* the other call runs next.
Switch ==
    /\ first' = SlotOf(pc, via, args, sent, response, bodyUsed, outcome, logLines)
    /\ pc' = first.pc
    /\ via' = first.via
    /\ args' = first.args
    /\ sent' = first.sent
    /\ response' = first.response
    /\ bodyUsed' = first.bodyUsed
    /\ outcome' = first.outcome
    /\ logLines' = first.logLines
    /\ UNCHANGED <<formVars, noteVars, variant, inst, dom, ctorHeaders, baseURL,
                   defaultHeaders, token, optLog, callCount>>

NextInterleaved ==
    \/ \E tok \in Tokens : SetToken(tok)
    \/ \E e \in Endpoints, m \in InterleavedMethods, b \in InterleavedBodies,
          h \in HeaderSets : Request(e, m, b, h)
    \/ FetchRejects
    \/ \E resp \in InterleavedResponses : FetchResolves(resp)
    \/ ReadSettles
    \/ RereadSettles
    \/ Switch

SpecInterleaved == InitInterleaved /\ [][NextInterleaved]_vars

-----------------------------------------------------------------------------
(* Properties of the baseURL client *)

Settled == pc = "settled"
Resolved == Settled /\ outcome.kind = "resolved"
RejectedOutcome == Settled /\ outcome.kind = "rejected"

\* fetch rejected: the call settled without a response.
TransportFailed == Settled /\ response = NoResponse

IsJsonDocument(text) == \E x \in JsonUniverse : JSONStringify(x) = text

\* The body of the response could not be decoded: the read failed, or the
\* response is declared JSON and its text is no JSON document.
DecodeFailed ==
    /\ Settled
    /\ response # NoResponse
    /\ \/ response.readFails
       \/ DecodesAsJson(response) /\ ~IsJsonDocument(response.raw)

\* The headers object of the transport call.
SentHeaders == sent.options["headers"].v

\* C1: under the flat-merge contract the promise rejects if and only if the
\* transport call failed or the body could not be decoded; every decoded
\* response, whatever its status, resolves with an object that has _status
\* and _ok and every field of a decoded JSON object with the body's value.
C1_RejectsIffTransportOrDecodeFailure ==
    Settled =>
        /\ outcome.kind \in {"resolved", "rejected"}
        /\ (outcome.kind = "rejected") <=> (TransportFailed \/ DecodeFailed)
        /\ outcome.kind = "resolved" =>
              /\ outcome.value.t = "obj"
              /\ {"_status", "_ok"} \subseteq DOMAIN outcome.value.v
              /\ DecodesAsJson(response) =>
                    LET body == JSONParse(response.raw).value
                    IN body.t = "obj" =>
                          \A k \in DOMAIN body.v :
                              k \in DOMAIN outcome.value.v /\ outcome.value.v[k] = body.v[k]

\* Status 404 with the JSON body {message: "hi"} resolved.
C1_Witness ==
    /\ Resolved
    /\ response.status = 404
    /\ response.raw = JSONStringify(JObj([message |-> JStr(Hi)]))
    /\ outcome.value = JObj([_status |-> JNum(404), _ok |-> JBool(FALSE), message |-> JStr(Hi)])

\* C2: when the body of a response cannot be decoded, request rejects with
\* an error that carries the raw text of the response.
C2_DecodeErrorCarriesRawText ==
    (DecodeFailed /\ ~response.readFails) =>
        /\ outcome.kind = "rejected"
        /\ outcome.value = JError("Error", <<"Failed to parse response: ">> \o response.raw)

\* C3: in every resolved result _status is the response's status code and
\* _ok is the response's ok flag, whatever the decoded body holds.
C3_StatusKeysAreTransportLevel ==
    Resolved =>
        /\ outcome.value.v["_status"] = JNum(response.status)
        /\ outcome.value.v["_ok"] = JBool(response.ok)

\* C4: for a response that is not declared JSON the value delivered to the
\* caller is the body text as a string.
C4_TextDeliveredAsLiteralString ==
    (Resolved /\ ~DecodesAsJson(response)) => outcome.value = JStr(response.raw)

\* C5: a request whose method is GET or HEAD passes no body to the
\* transport, whatever body argument and headers are supplied.
C5_NoBodyForGetAndHead ==
    (pc # "idle" /\ args.method \in {"GET", "HEAD"}) => "body" \notin DOMAIN sent.options

\* A HEAD request was issued with an object body and a per-call Content-Type.
C5_Witness ==
    /\ pc = "fetch"
    /\ args.method = "HEAD"
    /\ args.body = JObj([message |-> JStr(Hi)])
    /\ "Content-Type" \in DOMAIN args.headers
    /\ DOMAIN sent.options = {"method", "headers"}

\* C6: a request whose method is neither GET nor HEAD and whose body
\* argument is not null passes a body to the transport: the JSON text of the
\* argument when the Content-Type sent equals application/json, the argument
\* itself otherwise.
C6_NonNullBodyIsSent ==
    (pc # "idle" /\ args.method \notin {"GET", "HEAD"} /\ args.body # JNull) =>
        /\ "body" \in DOMAIN sent.options
        /\ sent.options["body"] =
              IF "Content-Type" \in DOMAIN SentHeaders /\ SentHeaders["Content-Type"] = JsonCT
                  THEN JStr(JSONStringify(args.body))
                  ELSE args.body

\* A request is issued in this step.
IssuesRequest == callCount' = callCount + 1

\* C7: a request issued while a non-empty token is stored sends the single
\* Authorization header `Bearer <token>` of the token last set; a request
\* issued after the token was cleared sends no header made from a token.
C7_TokenSetsAuthorization ==
    [][IssuesRequest =>
          /\ Truthy(token) =>
                /\ "Authorization" \in DOMAIN sent'.options["headers"].v
                /\ sent'.options["headers"].v["Authorization"] = <<"Bearer ">> \o token.v
          /\ token = JNull =>
                sent'.options["headers"].v = Merge(defaultHeaders, args'.headers)]_vars

\* A request went out with the second token after the token was replaced.
C7_Witness ==
    /\ pc = "fetch"
    /\ callCount = 2
    /\ token = JStr(<<"t2">>)
    /\ "Authorization" \in DOMAIN args.headers
    /\ SentHeaders["Authorization"] = <<"Bearer ", "t2">>

\* C8: in the headers sent, a per-call header wins over the instance default
\* of the same name and an instance default wins over the built-in
\* Content-Type: application/json.  The Authorization name is written after
\* this merge when a token is stored.
C8_LaterHeaderWins ==
    [][IssuesRequest =>
          \A n \in DOMAIN sent'.options["headers"].v :
              \/ n = "Authorization" /\ Truthy(token)
              \/ sent'.options["headers"].v[n] =
                    IF n \in DOMAIN args'.headers THEN args'.headers[n]
                    ELSE IF n \in DOMAIN ctorHeaders THEN ctorHeaders[n]
                    ELSE JsonCT]_vars

\* A per-call Content-Type replaced the Content-Type given to the constructor.
C8_Witness ==
    /\ pc = "fetch"
    /\ "Content-Type" \in DOMAIN ctorHeaders
    /\ "Content-Type" \in DOMAIN args.headers
    /\ ctorHeaders["Content-Type"] # args.headers["Content-Type"]
    /\ SentHeaders["Content-Type"] = TextCT

-----------------------------------------------------------------------------
(* Properties of the one-shot clients *)

\* The body as the client decodes it: parsed when declared JSON, the text
\* otherwise.
DecodedBody ==
    IF DecodesAsJson(response) THEN JSONParse(response.raw).value ELSE JStr(response.raw)

\* The message of the error a failed attempt ends with.
FailureMessage ==
    IF response = NoResponse THEN NetworkError.v.message
    ELSE IF response.readFails THEN BodyReadError.v.message
    ELSE JsonSyntaxError.v.message

\* C9: a one-shot request never rejects; a network failure or a decode
\* failure resolves with ok false, data null and the error's message.
C9_WrappedNeverRejects ==
    /\ outcome.kind # "rejected"
    /\ Settled =>
          /\ outcome.kind = "resolved"
          /\ (TransportFailed \/ DecodeFailed) =>
                /\ outcome.value.t = "obj"
                /\ {"ok", "data", "error"} \subseteq DOMAIN outcome.value.v
                /\ outcome.value.v["ok"] = JBool(FALSE)
                /\ outcome.value.v["data"] = JNull
                /\ outcome.value.v["error"] = JStr(FailureMessage)

\* A response declared JSON whose text is no JSON document was resolved as
\* a failure.
C9_Witness ==
    /\ Settled
    /\ DecodeFailed
    /\ ~response.readFails
    /\ outcome.kind = "resolved"
    /\ outcome.value.v["error"] = JStr(JsonSyntaxError.v.message)

\* The status, ok flag and decoded body of a decoded response are returned.
ReturnsDecoded ==
    /\ outcome.kind = "resolved"
    /\ outcome.value.t = "obj"
    /\ {"status", "ok", "data"} \subseteq DOMAIN outcome.value.v
    /\ outcome.value.v["status"] = JNum(response.status)
    /\ outcome.value.v["ok"] = JBool(response.ok)
    /\ outcome.value.v["data"] = DecodedBody

DecodedResponse == Settled /\ response # NoResponse /\ ~DecodeFailed

\* C10 as stated: a decoded response resolves with its status, ok flag and
\* decoded body, with an error message when the status is not 2xx and
\* without one when it is.
C10_NonOkCarriesError ==
    DecodedResponse =>
        /\ ReturnsDecoded
        /\ ("error" \in DOMAIN outcome.value.v) <=> ~response.ok

\* C10 amended: a decoded response resolves with exactly its status, ok
\* flag (false for a non-2xx status) and decoded body, and no error field,
\* whatever the status.
C10_DecodedResponseHasNoError ==
    DecodedResponse =>
        /\ ReturnsDecoded
        /\ DOMAIN outcome.value.v = {"status", "ok", "data"}
        /\ outcome.value.v["ok"] = JBool(response.status >= 200 /\ response.status <= 299)

\* Status 404 with the JSON body {message: "hi"} resolved.
C10_Witness ==
    /\ DecodedResponse
    /\ outcome.value = JObj([status |-> JNum(404), ok |-> JBool(FALSE),
                             data |-> JObj([message |-> JStr(Hi)])])

-----------------------------------------------------------------------------
(* Properties of logging and of the convenience methods *)

\* C11: the same call on a client that differs in the log flag only, with
\* the same arguments and the same transport behaviour, makes the same
\* transport call and settles the same way.
C11_LoggingChangesNothing ==
    Replayed =>
        /\ sent = first.sent
        /\ Settled => outcome = first.outcome

\* The call was rejected on a client that logs and rejected again, with the
\* same error and no log line, on its twin that does not.
C11_Witness ==
    /\ Replayed
    /\ Settled
    /\ variant = "baseURL"
    /\ first.log
    /\ ~optLog
    /\ logLines = <<>>
    /\ outcome.kind = "rejected"
    /\ outcome = first.outcome

\* C12: a call through get, post, put, patch, delete or the static fetch,
\* repeated as the request call it stands for (on the same instance; for the
\* static helper on a fresh client with that baseURL, no extra default
\* headers and no token), makes the same transport call and settles the
\* same way.
C12_VerbsForwardToRequest ==
    (Replayed /\ first.via.verb \in Verbs \cup {"fetch"}) =>
        /\ via = ViaOf("request", first.via.endpoint, JStr(<<MethodOfVerb(first.via)>>),
                       BodyOfVerb(first.via), first.via.headers)
        /\ sent = first.sent
        /\ Settled => outcome = first.outcome

\* delete(e, h) under a stored token was repeated as request(e, 'DELETE',
\* null, h) and both resolved with the same merged value.
C12_Witness ==
    /\ Replayed
    /\ first.via.verb = "delete"
    /\ via.verb = "request"
    /\ sent.options["method"] = JStr(<<"DELETE">>)
    /\ Truthy(token)
    /\ Settled
    /\ outcome.kind = "resolved"
    /\ outcome = first.outcome

-----------------------------------------------------------------------------
(* Properties of Form *)

\* The listener of the Form instance has handled the last event fired.
HandledRun == formRun.pc \in {"done", "threw"}

\* The snapshot the listener built for that event.
BuiltSnapshot == formRun.steps[2].arg

\* C13: constructing a Form for an id no element has throws an error at
\* once, attaches no listener and leaves no Form instance.
C13_MissingElementFailsConstruction ==
    [][(formObj' # formObj /\ ~formObj.exists /\ formObj'.asked # formDoc.id) =>
          /\ formObj'.thrown.t = "error"
          /\ formObj' = [NoFormObj EXCEPT !.asked = formObj'.asked,
                                          !.thrown = formObj'.thrown]
          /\ listeners' = listeners]_vars

\* new Form('ghost') threw while the page's own listener on the existing
\* form stayed the only listener.
C13_Witness ==
    /\ formObj.asked = <<"ghost">>
    /\ formObj.thrown = NotFoundError(<<"ghost">>)
    /\ ~formObj.exists
    /\ listeners = {AppListener}

\* C14: every named multi-select decides the entry under its name by its
\* selected options: the sequence of their values for two or more, the bare
\* value for one, and nothing for none.
C14_MultiSelectDecidesEntry ==
    HandledRun =>
        \A i \in 1..Len(formRun.controls) :
            LET c == formRun.controls[i]
                selected == [j \in 1..Len(c.values) |-> JStr(<<c.values[j]>>)]
                alone == \A k \in 1..Len(formRun.controls) :
                            k # i => formRun.controls[k].name # c.name
            IN (c.kind = "multi" /\ c.name # "") =>
                  /\ Len(selected) >= 2 =>
                        /\ c.name \in DOMAIN BuiltSnapshot.v
                        /\ BuiltSnapshot.v[c.name] = JArr(selected)
                  /\ Len(selected) = 1 =>
                        /\ c.name \in DOMAIN BuiltSnapshot.v
                        /\ BuiltSnapshot.v[c.name] = selected[1]
                  /\ (Len(selected) = 0 /\ alone) => c.name \notin DOMAIN BuiltSnapshot.v

\* C15: getData() is null until an event has been handled, and afterwards
\* exactly the snapshot built for the latest one, with no name that the form
\* did not have at that event.
C15_GetDataIsLatestSnapshot ==
    /\ (formObj.exists /\ ~HandledRun) => GetData = JNull
    /\ HandledRun =>
          /\ GetData = BuiltSnapshot
          /\ \A n \in DOMAIN GetData.v :
                \E i \in 1..Len(formRun.controls) : formRun.controls[i].name = n

\* The snapshot before the latest event had colors; the form was edited, and
\* the snapshot of the latest event has not.
C15_Witness ==
    /\ HandledRun
    /\ formRun.before.t = "obj"
    /\ "colors" \in DOMAIN formRun.before.v
    /\ "colors" \notin DOMAIN GetData.v
    /\ "tag" \in DOMAIN GetData.v

\* C16: every handled event dispatches form:captured with the snapshot as
\* its detail, whatever the callback is and does.
C16_AlwaysDispatches ==
    HandledRun =>
        \E i \in 1..Len(formRun.steps) : formRun.steps[i] = Step("dispatch", BuiltSnapshot)

\* C17: new Form(formId, {onCaptured, debug}) listens for submit and uses the
\* given callback and debug flag.
C17_TwoArgumentCallListensForSubmit ==
    (formObj.exists /\ formObj.given[1].t = "obj" /\ formObj.given[2].t = "undef") =>
        /\ CaptureListener(<<"submit">>) \in listeners
        /\ formObj.onCaptured = GetProperty(formObj.given[1].v, "onCaptured")
        /\ formObj.debug = OptionOr(formObj.given[1].v, "debug", JBool(FALSE))

-----------------------------------------------------------------------------
(* Properties of the one-shot clients: headers and form feedback *)

\* The headers option the client was given.
GivenHeaders ==
    IF "headers" \in DOMAIN inst.options THEN SpreadOf(inst.options["headers"])
    ELSE NoHeaders

\* C18: the transport receives the default Content-Type together with the
\* headers of options.headers, the latter winning on Content-Type.
C18_OptionHeadersMergedWithDefault ==
    (inst # NoInst /\ sent # NoSent) =>
        LET merged == Merge(BuiltinHeaders, GivenHeaders)
            received == SpreadOf(sent.options["headers"])
        IN \A k \in DOMAIN merged : k \in DOMAIN received /\ received[k] = merged[k]

\* The request settles in this step.
Settles == pc # "settled" /\ pc' = "settled"

\* C19: when formId names an existing form, a request that settles with ok
\* true and method POST or PUT leaves the success message in the form, one
\* that settles with ok false (non-2xx, network or decode failure) leaves the
\* error message, any other leaves the form as it was; without such a formId
\* the document stays as it was, as it does in every other step.
C19_FormFeedback ==
    [][IF Settles /\ inst.formId.t = "str" /\ (\E id \in DOMAIN dom : <<id>> = inst.formId.v)
          THEN LET id == CHOOSE f \in DOMAIN dom : <<f>> = inst.formId.v
                   result == outcome'.value.v
               IN IF ~result["ok"].v
                     THEN dom' = [dom EXCEPT ![id] = ErrorHTML]
                     ELSE IF ToUpperCase(args.method) \in {"POST", "PUT"}
                             THEN dom' = [dom EXCEPT ![id] = SuccessHTML]
                             ELSE dom' = dom
          ELSE dom' = dom]_vars

\* A PUT with formId f1 completed with status 200 and the form shows the
\* success message.
C19_Witness ==
    /\ Settled
    /\ inst.formId = JStr(<<"f1">>)
    /\ ToUpperCase(args.method) = "PUT"
    /\ outcome.value.v["ok"] = JBool(TRUE)
    /\ dom["f1"] = SuccessHTML

-----------------------------------------------------------------------------
(* Properties of Notification *)

Shown(n) == n \in 1..Len(notes)
Removed(n) == Shown(n) /\ ~notes[n].attached

\* C20: a notification with duration > 0 is eventually removed with no click
\* needed; one with duration 0 has no removal timeout until its close button
\* is clicked and stays in the container until then; a removed notification
\* stays removed, also when remove() runs a second time.
C20_NotificationLifecycle ==
    /\ \A n \in 1..MaxNotes : (Shown(n) /\ notes[n].duration > 0) ~> Removed(n)
    /\ [](\A n \in 1..Len(notes) :
             (notes[n].duration = 0 /\ notes[n].clicks = 0) =>
                 /\ notes[n].attached
                 /\ PendingTimers(n, "expire") = {}
                 /\ PendingTimers(n, "remove") = {})
    /\ [][\A n \in 1..Len(notes) : Removed(n) => Removed(n)']_vars

\* The close button of an auto-closing notification was clicked, and both
\* the click's and the timer's remove() have run.
C20_Witness ==
    \E n \in 1..Len(notes) :
        /\ notes[n].duration > 0
        /\ notes[n].clicks = 1
        /\ notes[n].removeCalls = 2
        /\ ~notes[n].attached
        /\ PendingTimers(n, "remove") = {}

-----------------------------------------------------------------------------
(* Properties of the baseURL client: merge order, token, frame, logging *)

\* C21: the headers sent are the built-in Content-Type, then the instance
\* default headers, then the Authorization of a stored token, then the
\* per-call headers, each later one winning; a per-call Authorization wins
\* over the one made from the stored token.
C21_PerCallHeadersWinOverToken ==
    [][IssuesRequest =>
          LET builtin == [k \in {"Content-Type"} |-> JsonCT]
              bearer == IF Truthy(token)
                           THEN [k \in {"Authorization"} |-> <<"Bearer ">> \o token.v]
                           ELSE NoHeaders
          IN sent'.options["headers"].v =
                Merge(Merge(Merge(builtin, ctorHeaders), bearer), args'.headers)]_vars

\* The Authorization header of a transport call; empty when it has none.
AuthorizationSent(call) ==
    IF "headers" \in DOMAIN call.options
          /\ "Authorization" \in DOMAIN call.options["headers"].v
        THEN call.options["headers"].v["Authorization"]
        ELSE <<>>

\* Two per-call values, of the running and of the other call, are the same
\* two values after the step, whichever call runs.
Kept(cur, curNext, other, otherNext) ==
    \/ curNext = cur /\ otherNext = other
    \/ curNext = other /\ otherNext = cur

\* C22: the Authorization header of a transport call is made from the token
\* stored when request was called; a setToken leaves the transport call, the
\* response and the outcome of every call in flight or settled as they were,
\* and no step after the call changes its transport call.
C22_SetTokenAffectsLaterRequestsOnly ==
    [][/\ IssuesRequest =>
             /\ first'.sent = first.sent
             /\ IF Truthy(token)
                   THEN /\ "Authorization" \in DOMAIN sent'.options["headers"].v
                        /\ sent'.options["headers"].v["Authorization"] = <<"Bearer ">> \o token.v
                   ELSE sent'.options["headers"].v = Merge(defaultHeaders, args'.headers)
       /\ ~IssuesRequest => Kept(sent, sent', first.sent, first'.sent)
       /\ token' # token =>
             /\ UNCHANGED <<sent, response, outcome, pc, first>>]_vars

\* Two calls are in flight, the running one sent with the first token and
\* the other with the second, which is the token stored now.
C22_Witness ==
    /\ first.mode = "slot"
    /\ pc = "read"
    /\ first.pc = "fetch"
    /\ token = JStr(<<"t2">>)
    /\ AuthorizationSent(sent) = <<"Bearer ", "t1">>
    /\ AuthorizationSent(first.sent) = <<"Bearer ", "t2">>

\* C23: no step of a request changes baseURL, defaultHeaders or the stored
\* token, whatever its outcome; the per-call arguments stay as given; and the
\* transport call of a request is made from the instance fields and its own
\* arguments only.
C23_RequestLeavesInstanceUnchanged ==
    [][/\ baseURL' = baseURL
       /\ defaultHeaders' = defaultHeaders
       /\ defaultHeaders' = ConstructDefaultHeaders(ctorHeaders')
       /\ token' # token =>
             /\ callCount' = callCount
             /\ UNCHANGED <<pc, outcome, first>>
       /\ ~IssuesRequest => Kept(args, args', first.args, first'.args)
       /\ IssuesRequest =>
             /\ first' = first
             /\ sent' = [url |-> baseURL \o args'.endpoint,
                         options |-> RequestOptions(args'.method, args'.body,
                                        FinalHeaders(defaultHeaders, args'.headers, token))]]_vars

\* Two concurrent calls have settled, one rejected by a decode failure and
\* one resolved with status 401; the token and the default headers are those
\* set before.
C23_Witness ==
    /\ first.mode = "slot"
    /\ pc = "settled"
    /\ first.pc = "settled"
    /\ outcome.kind = "rejected"
    /\ first.outcome.kind = "resolved"
    /\ first.response.status = 401
    /\ token = JStr(<<"t1">>)
    /\ AuthorizationSent(sent) = <<"Bearer ", "t1">>
    /\ AuthorizationSent(first.sent) = <<"Bearer ", "t1">>
    /\ ctorHeaders # NoHeaders
    /\ defaultHeaders = ConstructDefaultHeaders(ctorHeaders)

-----------------------------------------------------------------------------
(* Properties of Form: the entry walk and the order of the listener *)

\* The values the form encoding holds under a name, in encounter order.
RECURSIVE ValuesUnder(_, _)
ValuesUnder(entries, name) ==
    IF entries = <<>> THEN <<>>
    ELSE (IF Head(entries)[1] = name THEN <<JStr(<<Head(entries)[2]>>)>> ELSE <<>>)
            \o ValuesUnder(Tail(entries), name)

\* What the entry walk alone leaves for the form of the handled event.
WalkedEntries == WalkEntries(FormDataEntries(formRun.controls), EmptyObj)

\* C24: after the entry walk, a name seen once holds its value as a scalar
\* and a name seen k >= 2 times holds the sequence of its k values in
\* encounter order, for every field name, the names of built-in object
\* properties included.
C24_EntryWalkCollectsEveryName ==
    HandledRun =>
        \A i \in 1..Len(FormDataEntries(formRun.controls)) :
            LET name == FormDataEntries(formRun.controls)[i][1]
                values == ValuesUnder(FormDataEntries(formRun.controls), name)
            IN /\ name \in DOMAIN WalkedEntries
               /\ WalkedEntries[name] = IF Len(values) = 1 THEN values[1] ELSE JArr(values)

\* The place of a step in the listener's body.
RankOf(op) ==
    CASE op = "preventDefault" -> 1
      [] op = "capture" -> 2
      [] op = "debug" -> 3
      [] op = "callback" -> 4
      [] op = "dispatch" -> 5
      [] op = "throw" -> 5
      [] op = "received" -> 6

HasStep(steps, op) == \E i \in 1..Len(steps) : steps[i].op = op

\* One activation of the listener: default suppressed, snapshot built and
\* stored, debug line, callback, dispatch, each with the stored snapshot.
InOrder(steps) ==
    /\ Len(steps) >= 3
    /\ steps[1] = Step("preventDefault", JUndef)
    /\ steps[2] = Step("capture", CaptureFormData(formRun.controls))
    /\ \A i \in 1..(Len(steps) - 1) : RankOf(steps[i].op) < RankOf(steps[i + 1].op)
    /\ HasStep(steps, "debug") <=> Truthy(formObj.debug)
    /\ HasStep(steps, "callback") <=> formObj.onCaptured.t = "fn"
    /\ \A i \in 3..Len(steps) :
          steps[i].op \in {"debug", "callback", "dispatch", "received"} =>
              /\ steps[i].arg = steps[2].arg
              /\ steps[i].arg = GetData

\* C25: in the handling of one event the default action is suppressed, then
\* the snapshot is built and stored, then the debug line is logged, then the
\* callback is called with the snapshot, and only then form:captured is
\* dispatched; the callback and the form:captured listeners already read
\* the new snapshot from getData().
C25_ListenerStepsInOrder ==
    HandledRun =>
        /\ formRun.prevented
        /\ InOrder(formRun.steps)
        /\ \A k \in 1..Len(formRun.inner) : InOrder(formRun.inner[k])

\* Debug line, callback, dispatch and the page's listener all ran, on a
\* snapshot that replaced an older one.
C25_Witness ==
    /\ HandledRun
    /\ Len(formRun.steps) = 6
    /\ formRun.steps[6].op = "received"
    /\ formRun.before.t = "obj"
    /\ formRun.before # GetData

\* C26: the listener does not wait for an asynchronous callback: while the
\* promise the callback returned is pending the event has been dispatched and
\* the listener has returned, and the settling of the promise, a rejection
\* included, changes neither the stored snapshot nor the dispatch.
C26_AsyncCallbackNotAwaited ==
    [][/\ formRun'.promise = "pending" =>
             /\ formRun'.pc = "done"
             /\ HasStep(formRun'.steps, "callback")
             /\ HasStep(formRun'.steps, "dispatch")
       /\ (formRun.promise = "pending" /\ formRun'.promise \in {"resolved", "rejected"}) =>
             /\ formObj' = formObj
             /\ formRun'.steps = formRun.steps
             /\ formRun'.inner = formRun.inner
             /\ formRun'.pc = formRun.pc]_vars

\* The callback's promise was rejected after the listener had dispatched
\* the event; the snapshot is still the one of that event.
C26_Witness ==
    /\ formRun.promise = "rejected"
    /\ formRun.pc = "done"
    /\ HasStep(formRun.steps, "dispatch")
    /\ formRun.before.t = "obj"
    /\ GetData = BuiltSnapshot
    /\ GetData # formRun.before

\* How many of the steps are the given operation.
RECURSIVE CountSteps(_, _)
CountSteps(steps, op) ==
    IF steps = <<>> THEN 0
    ELSE (IF Head(steps).op = op THEN 1 ELSE 0) + CountSteps(Tail(steps), op)

\* The same count over the listener activations nested in the handling.
RECURSIVE CountInner(_, _)
CountInner(runs, op) ==
    IF runs = <<>> THEN 0
    ELSE CountSteps(Head(runs), op) + CountInner(Tail(runs), op)

\* C29: the handling of one event runs the capture listener once: it
\* dispatches exactly one form:captured event, calls the callback exactly
\* once when one was given, and its own dispatch never calls the listener
\* again, whatever event type the Form listens for.
C29_OneEventOneCapture ==
    HandledRun =>
        /\ formRun.depth = 1
        /\ formRun.inner = <<>>
        /\ CountSteps(formRun.steps, "dispatch") + CountInner(formRun.inner, "dispatch") = 1
        /\ CountSteps(formRun.steps, "callback") + CountInner(formRun.inner, "callback")
              = IF formObj.onCaptured.t = "fn" THEN 1 ELSE 0

\* A snapshot entry read as a sequence, a scalar being a sequence of one.
AsSequence(x) == IF x.t = "arr" THEN x.v ELSE <<x>>

\* C30: for every name the form encoding holds, the snapshot entry holds
\* every value encoded under that name, in encounter order, also when a
\* multi-select shares its name with another control.
C30_NoSubmittedValueLost ==
    HandledRun =>
        \A i \in 1..Len(FormDataEntries(formRun.controls)) :
            LET name == FormDataEntries(formRun.controls)[i][1]
            IN /\ name \in DOMAIN BuiltSnapshot.v
               /\ AsSequence(BuiltSnapshot.v[name])
                     = ValuesUnder(FormDataEntries(formRun.controls), name)

-----------------------------------------------------------------------------
(* Properties of request: the log lines of one call *)

\* What the first read of the received response gives.
FirstRead ==
    IF DecodesAsJson(response) THEN ResponseJson(response, FALSE)
    ELSE ResponseText(response, FALSE)

\* C27: with logging enabled a call of request emits exactly one line, when
\* it settles: an informational line with the endpoint, the status and the
\* decoded data when the attempt completes, or an error line with the
\* method, the endpoint and the error when the transport call or the decode
\* fails; with logging disabled it emits none.
C27_OneLogLinePerCall ==
    /\ pc \in {"fetch", "read", "reread"} => logLines = <<>>
    /\ (pc = "settled" /\ ~optLog) => logLines = <<>>
    /\ (pc = "settled" /\ optLog /\ outcome.kind = "resolved") =>
          /\ Len(logLines) = 1
          /\ logLines[1].level = "log"
          /\ logLines[1].text = <<"[smQL] Request to ">> \o args.endpoint
                                   \o <<" returned status ", ToString(response.status)>>
          /\ logLines[1].payload = outcome.value
          /\ FirstRead.ok
          /\ \A k \in DOMAIN SpreadOf(FirstRead.value) :
                /\ k \in DOMAIN logLines[1].payload.v
                /\ logLines[1].payload.v[k] = SpreadOf(FirstRead.value)[k]
    /\ (pc = "settled" /\ optLog /\ outcome.kind = "rejected") =>
          /\ Len(logLines) = 1
          /\ logLines[1].level = "error"
          /\ logLines[1].text = <<"[smQL] API request failed: ", args.method, " ">>
                                   \o args.endpoint
          /\ logLines[1].payload = outcome.value
          /\ response = NoResponse \/ ~FirstRead.ok

\* The second call of a logging client received a response whose body could
\* not be decoded and left the one error line.
C27_Witness ==
    /\ optLog
    /\ callCount = 2
    /\ pc = "settled"
    /\ outcome.kind = "rejected"
    /\ response # NoResponse
    /\ Len(logLines) = 1
    /\ logLines[1].level = "error"

-----------------------------------------------------------------------------
(* Properties of the one-shot client: the body *)

\* C28: new smQL(endpoint, method, body, options) sends no body when none
\* was supplied (body null), whatever the method; a supplied body is sent as
\* its JSON serialisation with POST, PUT and PATCH, and no body is sent with
\* GET and DELETE.
C28_OneShotBodyOptional ==
    (variant = "ctor" /\ sent # NoSent) =>
        /\ args.body = JNull => "body" \notin DOMAIN sent.options
        /\ (args.body # JNull /\ inst.method \in BodyVerbs) =>
              /\ "body" \in DOMAIN sent.options
              /\ sent.options["body"] = JStr(JSONStringify(args.body))
        /\ inst.method \in {"GET", "DELETE"} => "body" \notin DOMAIN sent.options

====
